---- MODULE Spec2Model ----
(***************************************************************************)
(* Model of sbctl's resource decoder (pkg/sbctl/compatibility.go: Decode,  *)
(* wrapListData, SortUnstructuredList) and of the interactive shell        *)
(* command (cli/shell.go: ShellCmd, startShellAndWait).                    *)
(*                                                                         *)
(* A file payload is modelled by its JSON structure:                       *)
(*   shape      "garbage" (not JSON), "array" (bare array of objects) or   *)
(*              "object"                                                   *)
(*   kind, apiVersion   the envelope fields of an object ("" when absent)  *)
(*   itemsShape the shape of the object's "items" field                    *)
(*   items      the elements of the array / of the "items" field           *)
(*   wellTyped  whether the object's fields fit the Go struct of its kind  *)
(* An element is [name, kind, apiVersion, wellTyped]; name stands for its  *)
(* metadata and the rest of its fields.                                    *)
(***************************************************************************)
EXTENDS Integers, Sequences, FiniteSets, TLC

VARIABLES
    \* ---- Decode ----
    resource,     \* Decode's resource argument
    data,         \* Decode's data argument
    ret,          \* Decode's results (obj, gvk, err); called = FALSE before the call
    \* ---- SortUnstructuredList ----
    list,         \* list.Items of the first list
    list2,        \* list.Items of a second list holding the same items in another order
    sorted,       \* TRUE once SortUnstructuredList has run on both
    input,        \* the items of list as they were before the sort
    \* ---- ShellCmd ----
    pc,           \* position of the RunE goroutine
    sigpc,        \* position of the signal goroutine
    args,         \* args[0] ("" when absent)
    flags,        \* viper values: support-bundle-location, token, cd-bundle
    bundleLocation,
    kubeConfig,
    bundleDir,
    deleteBundleDir,
    clusterResourcesDir,  \* clusterData.ClusterResourcesDir ("unset" before FindClusterData)
    fs,           \* the paths that exist on disk
    defers,       \* deferred calls of RunE, last registered first
    apiServer,    \* TRUE once api.StartAPIServer has been called
    shell,        \* [started, cmds, state] of startShellAndWait
    result        \* what RunE returned ("unset" while running)

decodeVars == <<resource, data, ret>>
sortVars == <<list, list2, sorted, input>>
shellVars == <<pc, sigpc, args, flags, bundleLocation, kubeConfig, bundleDir,
               deleteBundleDir, clusterResourcesDir, fs, defers,
               apiServer, shell, result>>
vars == <<decodeVars, sortVars, shellVars>>

----------------------------------------------------------------------------
(* Bounds *)
MaxItems == 2

----------------------------------------------------------------------------
(* Inputs of Decode *)

ElemNames == {"a", "b"}
ElemKinds == {"", "Pod"}
ElemAPIVersions == {"", "v1"}
Elements ==
    [name : ElemNames, kind : ElemKinds, apiVersion : ElemAPIVersions, wellTyped : BOOLEAN]

RECURSIVE SeqsUpTo(_, _)
SeqsUpTo(S, n) ==
    IF n = 0 THEN {<<>>}
    ELSE LET shorter == SeqsUpTo(S, n - 1)
         IN shorter \cup {Append(s, e) : s \in {t \in shorter : Len(t) = n - 1}, e \in S}

ItemSeqs == SeqsUpTo(Elements, MaxItems)

Garbage ==
    [shape |-> "garbage", kind |-> "", apiVersion |-> "", itemsShape |-> "absent",
     items |-> <<>>, wellTyped |-> FALSE]

ArrayOf(elems) ==
    [shape |-> "array", kind |-> "", apiVersion |-> "", itemsShape |-> "absent",
     items |-> elems, wellTyped |-> FALSE]

ObjectOf(kind, apiVersion, itemsShape, elems, wellTyped) ==
    [shape |-> "object", kind |-> kind, apiVersion |-> apiVersion,
     itemsShape |-> itemsShape, items |-> elems, wellTyped |-> wellTyped]

SingleTypes ==
    {<<"", "">>, <<"Pod", "v1">>, <<"Pod", "">>, <<"Widget", "example.com/v1">>}

ListTypes ==
    {<<"PodList", "v1">>, <<"ConfigMapList", "v1">>,
     <<"IngressList", "networking.k8s.io/v1">>,
     <<"CustomResourceDefinitionList", "apiextensions.k8s.io/v1">>,
     <<"WidgetList", "example.com/v1">>}

Payloads ==
    {Garbage}
    \cup {ArrayOf(s) : s \in ItemSeqs}
    \cup {ObjectOf(t[1], t[2], "absent", <<>>, w) : t \in SingleTypes \cup ListTypes, w \in BOOLEAN}
    \cup {ObjectOf(t[1], t[2], "array", s, TRUE) : t \in ListTypes, s \in ItemSeqs}

RecognizedHints ==
    {"pods", "events", "cronjobs", "deployments", "ingress", "ingresses", "jobs",
     "limitranges", "pvcs", "replicasets", "services", "statefulsets", "namespaces",
     "nodes", "persistentvolumes", "persistentvolumeclaims", "storageclasses",
     "customresourcedefinitions"}

Hints == RecognizedHints \cup {"configmaps", "widgets"}

----------------------------------------------------------------------------
(* schema.GroupVersionKind and its apiVersion string *)

GVK(group, version, kind) == [group |-> group, version |-> version, kind |-> kind]

NilGVK == [nil |-> TRUE, group |-> "", version |-> "", kind |-> ""]

PtrGVK(gvk) == [nil |-> FALSE, group |-> gvk.group, version |-> gvk.version, kind |-> gvk.kind]

\* schema.GroupVersion.String, used by SetGroupVersionKind
APIVersion(gvk) ==
    IF gvk.group = "" THEN gvk.version ELSE gvk.group \o "/" \o gvk.version

\* schema.ParseGroupVersion, used by GroupVersionKind()
ParseGroupVersion(s) ==
    CASE s = "" -> [group |-> "", version |-> ""]
      [] s = "v1" -> [group |-> "", version |-> "v1"]
      [] s = "apps/v1" -> [group |-> "apps", version |-> "v1"]
      [] s = "batch/v1" -> [group |-> "batch", version |-> "v1"]
      [] s = "batch/v1beta1" -> [group |-> "batch", version |-> "v1beta1"]
      [] s = "networking.k8s.io/v1" -> [group |-> "networking.k8s.io", version |-> "v1"]
      [] s = "storage.k8s.io/v1" -> [group |-> "storage.k8s.io", version |-> "v1"]
      [] s = "apiextensions.k8s.io/v1" -> [group |-> "apiextensions.k8s.io", version |-> "v1"]
      [] s = "example.com/v1" -> [group |-> "example.com", version |-> "v1"]

FromAPIVersionAndKind(apiVersion, kind) ==
    LET gv == ParseGroupVersion(apiVersion) IN GVK(gv.group, gv.version, kind)

----------------------------------------------------------------------------
(* Decoded objects *)

NilObj ==
    [nil |-> TRUE, typed |-> FALSE, isList |-> FALSE, kind |-> "", apiVersion |-> "",
     items |-> <<>>]

Obj(typed, isList, kind, apiVersion, items) ==
    [nil |-> FALSE, typed |-> typed, isList |-> isList, kind |-> kind,
     apiVersion |-> apiVersion, items |-> items]

\* The list types registered in kubectl's scheme that the model uses, as
\* <<kind, apiVersion>>.
RegisteredLists ==
    {<<"PodList", "v1">>, <<"EventList", "v1">>, <<"CronJobList", "batch/v1beta1">>,
     <<"DeploymentList", "apps/v1">>, <<"IngressList", "networking.k8s.io/v1">>,
     <<"JobList", "batch/v1">>, <<"LimitRangeList", "v1">>,
     <<"PersistentVolumeClaimList", "v1">>, <<"ReplicaSetList", "apps/v1">>,
     <<"ServiceList", "v1">>, <<"StatefulSetList", "apps/v1">>,
     <<"NamespaceList", "v1">>, <<"NodeList", "v1">>,
     <<"PersistentVolumeList", "v1">>, <<"StorageClassList", "storage.k8s.io/v1">>,
     <<"CustomResourceDefinitionList", "apiextensions.k8s.io/v1">>,
     <<"ConfigMapList", "v1">>}

RegisteredSingles == {<<"Pod", "v1">>, <<"ConfigMap", "v1">>}

\* An error is its message; "" is the nil error.
DecodeFailed == [obj |-> NilObj, gvk |-> NilGVK, err |-> "no kind registered or json parse error"]

\* scheme.Codecs.UniversalDeserializer().Decode(data, nil, nil): the payload
\* must be an object whose kind and apiVersion name a registered type and
\* whose fields fit that type.  The items of a typed list keep what the file
\* says about their kind and apiVersion.
decode(d) ==
    LET key == <<d.kind, d.apiVersion>>
        gvk == FromAPIVersionAndKind(d.apiVersion, d.kind)
    IN IF d.shape # "object" \/ d.kind = "" \/ d.apiVersion = "" \/ ~d.wellTyped
       THEN DecodeFailed
       ELSE IF key \in RegisteredLists
       THEN IF d.itemsShape \in {"absent", "array"}
               /\ \A i \in 1..Len(d.items) : d.items[i].wellTyped
            THEN [obj |-> Obj(TRUE, TRUE, d.kind, d.apiVersion, d.items),
                  gvk |-> PtrGVK(gvk), err |-> ""]
            ELSE DecodeFailed
       ELSE IF key \in RegisteredSingles
       THEN [obj |-> Obj(TRUE, FALSE, d.kind, d.apiVersion, <<>>),
             gvk |-> PtrGVK(gvk), err |-> ""]
       ELSE DecodeFailed

\* The switch of wrapListData: <<kind, apiVersion>> of the synthesized
\* envelope, <<"", "">> in the default case.
WrapTable(r) ==
    CASE r = "pods" -> <<"PodList", "v1">>
      [] r = "events" -> <<"EventList", "v1">>
      [] r = "cronjobs" -> <<"CronJobList", "batch/v1beta1">>
      [] r = "deployments" -> <<"DeploymentList", "apps/v1">>
      [] r \in {"ingress", "ingresses"} -> <<"IngressList", "networking.k8s.io/v1">>
      [] r = "jobs" -> <<"JobList", "batch/v1">>
      [] r = "limitranges" -> <<"LimitRangeList", "v1">>
      [] r = "pvcs" -> <<"PersistentVolumeClaimList", "v1">>
      [] r = "replicasets" -> <<"ReplicaSetList", "apps/v1">>
      [] r = "services" -> <<"ServiceList", "v1">>
      [] r = "statefulsets" -> <<"StatefulSetList", "apps/v1">>
      [] r = "namespaces" -> <<"NamespaceList", "v1">>
      [] r = "nodes" -> <<"NodeList", "v1">>
      [] r = "persistentvolumes" -> <<"PersistentVolumeList", "v1">>
      [] r = "persistentvolumeclaims" -> <<"PersistentVolumeClaimList", "v1">>
      [] r = "storageclasses" -> <<"StorageClassList", "storage.k8s.io/v1">>
      [] r = "customresourcedefinitions" ->
            <<"CustomResourceDefinitionList", "apiextensions.k8s.io/v1">>
      [] OTHER -> <<"", "">>

\* A plausible slip: the envelope of "pvcs" names the wrong list kind.
wrapListData_wrongKind(r, d) ==
    LET t == IF r = "pvcs" THEN <<"PersistentVolumeList", "v1">> ELSE WrapTable(r)
    IN IF t[1] = ""
       THEN [data |-> Garbage, err |-> "don't know how to wrap " \o r]
       ELSE [data |-> IF d.shape = "garbage" THEN Garbage
                      ELSE ObjectOf(t[1], t[2], d.shape, d.items, TRUE),
             err |-> ""]

\* wrapListData: the bytes of data become the value of "items" in an
\* envelope with the hint's kind and apiVersion.  The result is JSON only if
\* data is; its "items" is an array only if data is one.
wrapListData(r, d) ==
    LET t == WrapTable(r)
    IN IF t[1] = ""
       THEN [data |-> Garbage, err |-> "don't know how to wrap " \o r]
       ELSE [data |-> IF d.shape = "garbage" THEN Garbage
                      ELSE ObjectOf(t[1], t[2], d.shape,
                                    IF d.shape = "array" THEN d.items ELSE <<>>, TRUE),
             err |-> ""]

\* json.Unmarshal(originalData, &v) with v an unstructured.Unstructured:
\* the payload must be a JSON object with a non-empty kind.
UnmarshalUnstructured(d) ==
    IF d.shape = "object" /\ d.kind # ""
    THEN [obj |-> Obj(FALSE, FALSE, d.kind, d.apiVersion, d.items), err |-> ""]
    ELSE [obj |-> NilObj, err |-> "Object 'Kind' is missing or json parse error"]

\* json.Unmarshal(originalData, &vList) with vList a []unstructured.Unstructured:
\* the payload must be a JSON array whose elements all have a non-empty kind.
UnmarshalUnstructuredList(d) ==
    IF d.shape = "array" /\ \A i \in 1..Len(d.items) : d.items[i].kind # ""
    THEN [items |-> d.items, err |-> ""]
    ELSE [items |-> <<>>, err |-> "Object 'Kind' is missing or json parse error"]

\* errors.Wrap returns nil for a nil error.
errorsWrap(err, msg) == IF err = "" THEN "" ELSE msg \o ": " \o err

\* The type switch of Decode: the GroupVersionKind set on every item of a
\* typed list, by the Go type of the list, given as <<kind, apiVersion>>.
StampedLists ==
    {<<"EventList", "v1">>, <<"PodList", "v1">>, <<"LimitRangeList", "v1">>,
     <<"ServiceList", "v1">>, <<"NamespaceList", "v1">>, <<"NodeList", "v1">>,
     <<"PersistentVolumeList", "v1">>, <<"PersistentVolumeClaimList", "v1">>,
     <<"JobList", "batch/v1">>, <<"CronJobList", "batch/v1beta1">>,
     <<"DeploymentList", "apps/v1">>, <<"ReplicaSetList", "apps/v1">>,
     <<"StatefulSetList", "apps/v1">>, <<"StorageClassList", "storage.k8s.io/v1">>,
     <<"CustomResourceDefinitionList", "apiextensions.k8s.io/v1">>,
     <<"ConfigMapList", "v1">>}

StampTable(t) ==
    CASE t = <<"EventList", "v1">> -> GVK("", "v1", "Event")
      [] t = <<"PodList", "v1">> -> GVK("", "v1", "Pod")
      [] t = <<"LimitRangeList", "v1">> -> GVK("", "v1", "LimitRange")
      [] t = <<"ServiceList", "v1">> -> GVK("", "v1", "Service")
      [] t = <<"NamespaceList", "v1">> -> GVK("", "v1", "Namespace")
      [] t = <<"NodeList", "v1">> -> GVK("", "v1", "Node")
      [] t = <<"PersistentVolumeList", "v1">> -> GVK("", "v1", "PersistentVolume")
      [] t = <<"PersistentVolumeClaimList", "v1">> -> GVK("", "v1", "PersistentVolumeClaim")
      [] t = <<"JobList", "batch/v1">> -> GVK("batch", "v1", "Job")
      [] t = <<"CronJobList", "batch/v1beta1">> -> GVK("batch", "v1beta1", "CronJob")
      [] t = <<"DeploymentList", "apps/v1">> -> GVK("apps", "v1", "Deployment")
      [] t = <<"ReplicaSetList", "apps/v1">> -> GVK("apps", "v1", "ReplicaSet")
      [] t = <<"StatefulSetList", "apps/v1">> -> GVK("apps", "v1", "StatefulSet")
      [] t = <<"StorageClassList", "storage.k8s.io/v1">> ->
            GVK("storage.k8s.io", "v1", "StorageClass")
      [] t = <<"CustomResourceDefinitionList", "apiextensions.k8s.io/v1">> ->
            GVK("apiextensions.k8s.io", "v1", "CustomResourceDefinitionList")
      [] t = <<"ConfigMapList", "v1">> -> GVK("", "v1", "ConfigMap")

\* o.Items[i].GetObjectKind().SetGroupVersionKind(gvk)
SetGroupVersionKind(item, gvk) ==
    [item EXCEPT !.kind = gvk.kind, !.apiVersion = APIVersion(gvk)]

\* The switch at the end of Decode.
Stamp(o) ==
    LET t == <<o.kind, o.apiVersion>>
    IN IF o.typed /\ o.isList /\ t \in StampedLists
       THEN [o EXCEPT !.items =
                [i \in 1..Len(o.items) |-> SetGroupVersionKind(o.items[i], StampTable(t))]]
       ELSE o

Return(obj, gvk, err) == [called |-> TRUE, obj |-> obj, gvk |-> gvk, err |-> err]

NotCalled == [called |-> FALSE, obj |-> NilObj, gvk |-> NilGVK, err |-> ""]

\* A plausible slip: the fallbacks read data, which line 36 has overwritten.
FallbackData_wrapped(originalData, wrappedData) == wrappedData

\* The bytes the untyped fallbacks read: originalData, saved at line 28.
FallbackData(originalData, wrappedData) == originalData

Decode(r, d) ==
    LET originalData == d
        first == decode(d)
    IN IF first.err = ""
       THEN Return(first.obj, first.gvk, "")
       ELSE
         LET wrapped == wrapListData(r, d)
             second == IF wrapped.err # "" THEN first ELSE decode(wrapped.data)
             decoded == second.obj
         IN IF decoded.nil
            THEN
              LET fb == FallbackData(originalData, wrapped.data)
                  v == UnmarshalUnstructured(fb)
              IN IF v.err = ""
                 THEN Return(v.obj,
                             PtrGVK(FromAPIVersionAndKind(v.obj.apiVersion, v.obj.kind)), "")
                 ELSE
                   LET vList == UnmarshalUnstructuredList(fb)
                   IN IF vList.err = "" /\ Len(vList.items) > 0
                      THEN
                        LET o == vList.items[1]
                            gvk == FromAPIVersionAndKind(o.apiVersion, o.kind)
                        IN Return(Obj(FALSE, TRUE, gvk.kind, APIVersion(gvk), vList.items),
                                  PtrGVK(gvk), "")
                      ELSE Return(NilObj, NilGVK,
                                  errorsWrap(vList.err, "could not decode data into a k8s object"))
            ELSE Return(Stamp(decoded), second.gvk, "")

----------------------------------------------------------------------------
(* Specification of the decoder: a file of the bundle is decoded under a   *)
(* resource hint.                                                          *)

\* The shell command before it is run.
NoShell == [started |-> FALSE, cmds |-> <<>>, state |-> "none", err |-> "unset"]

\* Only the decoder runs: the lists and the shell command stay as they are.
DecodeInit ==
    /\ resource \in Hints
    /\ data \in Payloads
    /\ ret = NotCalled
    /\ list = <<>> /\ list2 = <<>> /\ sorted = FALSE /\ input = <<>>
    /\ pc = "idle" /\ sigpc = "none" /\ args = "" /\ bundleLocation = ""
    /\ flags = [location |-> "", token |-> "", cdBundle |-> FALSE]
    /\ kubeConfig = "" /\ bundleDir = "" /\ deleteBundleDir = FALSE
    /\ clusterResourcesDir = "unset" /\ fs = {} /\ defers = <<>>
    /\ apiServer = FALSE /\ shell = NoShell /\ result = "unset"

DecodeCall ==
    /\ ~ret.called
    /\ ret' = Decode(resource, data)
    /\ UNCHANGED <<resource, data>>
    /\ UNCHANGED <<sortVars, shellVars>>

----------------------------------------------------------------------------
(* SortUnstructuredList.  An item of the list is [namespace, name, ts]; ts *)
(* is metadata.creationTimestamp in seconds, 0 when the item has none      *)
(* (GetCreationTimestamp then returns the zero time).  Positions are Go's, *)
(* counted from 0.                                                         *)

MaxLen == 3
MaxTime == 1

\* sort.Slice sorts slices of at most maxInsertion elements by insertion.
maxInsertion == 12

At(d, i) == d[i + 1]

Swap(d, i, j) == [d EXCEPT ![i + 1] = d[j + 1], ![j + 1] = d[i + 1]]

\* The less function of SortUnstructuredList: iT.Before(&jT)
Less(d, i, j) == At(d, i).ts < At(d, j).ts

RECURSIVE insertDown(_, _, _)
insertDown(d, j, a) ==
    IF j > a /\ Less(d, j, j - 1) THEN insertDown(Swap(d, j, j - 1), j - 1, a) ELSE d

RECURSIVE insertionSortFrom(_, _, _, _)
insertionSortFrom(d, i, a, b) ==
    IF i < b THEN insertionSortFrom(insertDown(d, i, a), i + 1, a, b) ELSE d

\* insertionSort_func(data, a, b)
insertionSort(d, a, b) == insertionSortFrom(d, a + 1, a, b)

\* order2_func: <<x, y, swaps>>
order2(d, x, y, swaps) ==
    IF Less(d, y, x) THEN <<y, x, swaps + 1>> ELSE <<x, y, swaps>>

\* median_func: <<median, swaps>>
median(d, x, y, z, swaps) ==
    LET s1 == order2(d, x, y, swaps)
        s2 == order2(d, s1[2], z, s1[3])
        s3 == order2(d, s1[1], s2[1], s2[3])
    IN <<s3[2], s3[3]>>

\* choosePivot_func for fewer than shortestNinther (50) elements: the median
\* of three; three swaps at most, so the hint is never decreasingHint.
choosePivot(d, a, b) ==
    LET l == b - a
        i == a + (l \div 4) * 1
        j == a + (l \div 4) * 2
        k == a + (l \div 4) * 3
        m == IF l >= 8 THEN median(d, i, j, k, 0) ELSE <<j, 0>>
    IN [pivot |-> m[1], hint |-> IF m[2] = 0 THEN "increasingHint" ELSE "unknownHint"]

\* partialInsertionSort_func for fewer than shortestShifting (50) elements:
\* nothing moves, and the result says whether the range is sorted already.
partialInsertionSort(d, a, b) ==
    \A i \in (a + 1)..(b - 1) : ~Less(d, i, i - 1)

RECURSIVE scanUp(_, _, _, _)
scanUp(d, i, j, a) ==
    IF i <= j /\ Less(d, i, a) THEN scanUp(d, i + 1, j, a) ELSE i

RECURSIVE scanDown(_, _, _, _)
scanDown(d, i, j, a) ==
    IF i <= j /\ ~Less(d, j, a) THEN scanDown(d, i, j - 1, a) ELSE j

RECURSIVE partitionLoop(_, _, _, _)
partitionLoop(d, i, j, a) ==
    LET i2 == scanUp(d, i, j, a)
        j2 == scanDown(d, i2, j, a)
    IN IF i2 > j2 THEN [d |-> d, j |-> j2]
       ELSE partitionLoop(Swap(d, i2, j2), i2 + 1, j2 - 1, a)

\* partition_func(data, a, b, pivot)
partition(d, a, b, pivot) ==
    LET d1 == Swap(d, a, pivot)
        i == scanUp(d1, a + 1, b - 1, a)
        j == scanDown(d1, i, b - 1, a)
    IN IF i > j THEN [d |-> Swap(d1, j, a), mid |-> j]
       ELSE LET r == partitionLoop(Swap(d1, i, j), i + 1, j - 1, a)
            IN [d |-> Swap(r.d, r.j, a), mid |-> r.j]

\* pdqsort_func(data, a, b, limit) as sort.Slice calls it, for slices of at
\* most maxInsertion + 1 elements: the first partition leaves two ranges of
\* at most maxInsertion elements, so heapSort_func, breakPatterns_func and
\* partitionEqual_func are not reached.
RECURSIVE pdqsort(_, _, _)
pdqsort(d, a, b) ==
    IF b - a <= maxInsertion THEN insertionSort(d, a, b)
    ELSE LET cp == choosePivot(d, a, b)
         IN IF cp.hint = "increasingHint" /\ partialInsertionSort(d, a, b) THEN d
            ELSE LET p == partition(d, a, b, cp.pivot)
                 IN IF p.mid - a < b - p.mid
                    THEN pdqsort(pdqsort(p.d, a, p.mid), p.mid + 1, b)
                    ELSE pdqsort(pdqsort(p.d, p.mid + 1, b), a, p.mid)

SortUnstructuredList(items) == pdqsort(items, 0, Len(items))

(* Inputs: every list of at most MaxLen distinct objects, and the lists of *)
(* maxInsertion + 1 objects of one namespace; the second list holds the    *)
(* same items as the first in another order.                               *)

Namespaces == {"ns1", "ns2"}
Names == {"a", "b"}
Times == 0..MaxTime
SortItems == [namespace : Namespaces, name : Names, ts : Times]

Key(x) == <<x.namespace, x.name>>

Distinct(l) == \A i, j \in 1..Len(l) : i # j => Key(l[i]) # Key(l[j])

SmallLists == {l \in SeqsUpTo(SortItems, MaxLen) : Distinct(l)}

PodNames ==
    <<"p01", "p02", "p03", "p04", "p05", "p06", "p07", "p08", "p09", "p10", "p11",
      "p12", "p13">>

\* An item of a long list has no creation timestamp (0) or one timestamp.
BigTimes == {0, 1}

BigLists ==
    {[i \in 1..(maxInsertion + 1) |-> [namespace |-> "ns1", name |-> PodNames[i], ts |-> t[i]]] :
        t \in [1..(maxInsertion + 1) -> BigTimes]}

\* For lists of distinct objects: m holds the items of l in some order.
IsPermutation(l, m) ==
    /\ Len(l) = Len(m)
    /\ {l[i] : i \in 1..Len(l)} = {m[i] : i \in 1..Len(m)}

Reverse(l) == [i \in 1..Len(l) |-> l[Len(l) + 1 - i]]

SortInit ==
    /\ \/ /\ list \in SmallLists
          /\ list2 \in {m \in SmallLists : IsPermutation(list, m)}
       \/ /\ list \in BigLists
          /\ list2 = Reverse(list)
    /\ input = list
    /\ sorted = FALSE
    /\ resource = "" /\ data = Garbage /\ ret = NotCalled
    /\ pc = "idle" /\ sigpc = "none" /\ args = "" /\ bundleLocation = ""
    /\ flags = [location |-> "", token |-> "", cdBundle |-> FALSE]
    /\ kubeConfig = "" /\ bundleDir = "" /\ deleteBundleDir = FALSE
    /\ clusterResourcesDir = "unset" /\ fs = {} /\ defers = <<>>
    /\ apiServer = FALSE /\ shell = NoShell /\ result = "unset"

SortCall ==
    /\ ~sorted
    /\ list' = SortUnstructuredList(list)
    /\ list2' = SortUnstructuredList(list2)
    /\ sorted' = TRUE
    /\ UNCHANGED input
    /\ UNCHANGED <<decodeVars, shellVars>>

----------------------------------------------------------------------------
(* The shell command.  RunE runs in one goroutine (pc) and the goroutine   *)
(* it starts waits for an interrupt (sigpc); both read and write           *)
(* kubeConfig, bundleDir and deleteBundleDir without synchronisation, so   *)
(* every assignment of RunE is a step of its own.                          *)

UserDir == "/home/user/bundle"
UserArchive == "/home/user/bundle.tar.gz"
MissingPath == "/home/user/missing"
BundleURL == "https://host/bundle.tar.gz"
DownloadDir == "/tmp/sbctl-download"
TempDir == "/tmp/sbctl-1"
KubeConfigPath == "/tmp/local-kubeconfig-1"

UserPaths == {UserDir, UserArchive}

\* strings.HasPrefix(bundleLocation, "http")
HasPrefixHttp(path) == path = BundleURL

\* fileInfo.IsDir()
IsDir(path) == path = UserDir

\* os.RemoveAll(path)
RemoveAll(files, path) == files \ {path}

\* The process runs until RunE has returned or panicked, os.Exit was called
\* or an unhandled signal ended it.
Ended == {"returned", "crashed", "exited", "killed"}

Running == pc \notin Ended

ShellInit ==
    /\ pc = "start"
    /\ sigpc = "none"
    /\ args \in {"", UserDir, UserArchive}
    /\ flags \in [location : {"", BundleURL, UserDir, UserArchive, MissingPath},
                  token : {"", "token"}, cdBundle : BOOLEAN]
    /\ bundleLocation = ""
    /\ kubeConfig = ""
    /\ bundleDir = ""
    /\ deleteBundleDir = FALSE
    /\ clusterResourcesDir = "unset"
    /\ fs = UserPaths
    /\ defers = <<>>
    /\ apiServer = FALSE
    /\ shell = NoShell
    /\ result = "unset"
    /\ resource = "" /\ data = Garbage /\ ret = NotCalled
    /\ list = <<>> /\ list2 = <<>> /\ sorted = FALSE /\ input = <<>>

\* return err: the deferred calls run, then RunE is left.
ReturnWith(err) == pc' = "returning" /\ result' = err

\* Lines 35-81: the goroutine is started, cleanup is deferred and the
\* bundle location is read.
Start ==
    /\ pc = "start"
    /\ sigpc' = "spawned"
    /\ defers' = <<"cleanup">>
    /\ bundleLocation' = IF args # "" THEN args ELSE flags.location
    /\ IF bundleLocation' = ""
       THEN ReturnWith("support-bundle-location is required")
       ELSE pc' = "locate" /\ UNCHANGED result
    /\ UNCHANGED <<args, flags, kubeConfig, bundleDir, deleteBundleDir,
                   clusterResourcesDir, fs, apiServer, shell>>
    /\ UNCHANGED <<decodeVars, sortVars>>

\* Lines 83-95: downloadAndExtractBundle.
Download ==
    /\ pc = "locate"
    /\ HasPrefixHttp(bundleLocation)
    /\ IF flags.token = ""
       THEN ReturnWith("token is required when downloading bundle") /\ UNCHANGED fs
       ELSE \/ ReturnWith("failed to stat input path") /\ UNCHANGED fs
            \/ pc' = "l96" /\ fs' = fs \cup {DownloadDir} /\ UNCHANGED result
    /\ UNCHANGED <<sigpc, args, flags, bundleLocation, kubeConfig, bundleDir,
                   deleteBundleDir, clusterResourcesDir, defers, apiServer, shell>>
    /\ UNCHANGED <<decodeVars, sortVars>>

\* Line 96: bundleDir = dir
SetBundleDirDownloaded ==
    /\ pc = "l96"
    /\ bundleDir' = DownloadDir
    /\ pc' = "l97"
    /\ UNCHANGED <<sigpc, args, flags, bundleLocation, kubeConfig, deleteBundleDir,
                   clusterResourcesDir, fs, defers, apiServer, shell, result>>
    /\ UNCHANGED <<decodeVars, sortVars>>

\* Line 97: deleteBundleDir = true
SetDeleteDownloaded ==
    /\ pc = "l97"
    /\ deleteBundleDir' = TRUE
    /\ pc' = "l119"
    /\ UNCHANGED <<sigpc, args, flags, bundleLocation, kubeConfig, bundleDir,
                   clusterResourcesDir, fs, defers, apiServer, shell, result>>
    /\ UNCHANGED <<decodeVars, sortVars>>

\* Lines 99-105: os.Stat and bundleDir = bundleLocation
Stat ==
    /\ pc = "locate"
    /\ ~HasPrefixHttp(bundleLocation)
    /\ IF bundleLocation \notin fs
       THEN ReturnWith("failed to stat input path") /\ UNCHANGED bundleDir
       ELSE /\ bundleDir' = bundleLocation
            /\ pc' = IF IsDir(bundleLocation) THEN "l119" ELSE "l106"
            /\ UNCHANGED result
    /\ UNCHANGED <<sigpc, args, flags, bundleLocation, kubeConfig, deleteBundleDir,
                   clusterResourcesDir, fs, defers, apiServer, shell>>
    /\ UNCHANGED <<decodeVars, sortVars>>

\* Line 106: deleteBundleDir = true
SetDeleteArchive ==
    /\ pc = "l106"
    /\ deleteBundleDir' = TRUE
    /\ pc' = "l107"
    /\ UNCHANGED <<sigpc, args, flags, bundleLocation, kubeConfig, bundleDir,
                   clusterResourcesDir, fs, defers, apiServer, shell, result>>
    /\ UNCHANGED <<decodeVars, sortVars>>

\* Lines 107-110: bundleDir, err = os.MkdirTemp("", "sbctl-")
MkdirTemp ==
    /\ pc = "l107"
    /\ \/ /\ fs' = fs \cup {TempDir}
          /\ bundleDir' = TempDir
          /\ pc' = "l112"
          /\ UNCHANGED result
       \/ /\ bundleDir' = ""
          /\ ReturnWith("failed to create temp dir")
          /\ UNCHANGED fs
    /\ UNCHANGED <<sigpc, args, flags, bundleLocation, kubeConfig, deleteBundleDir,
                   clusterResourcesDir, defers, apiServer, shell>>
    /\ UNCHANGED <<decodeVars, sortVars>>

\* Lines 112-115: sbctl.ExtractBundle(bundleLocation, bundleDir)
ExtractBundle ==
    /\ pc = "l112"
    /\ \/ pc' = "l119" /\ UNCHANGED result
       \/ ReturnWith("failed to extract bundle")
    /\ UNCHANGED <<sigpc, args, flags, bundleLocation, kubeConfig, bundleDir,
                   deleteBundleDir, clusterResourcesDir, fs, defers, apiServer, shell>>
    /\ UNCHANGED <<decodeVars, sortVars>>

\* Lines 119-122: sbctl.FindClusterData(bundleDir)
FindClusterData ==
    /\ pc = "l119"
    /\ \/ ReturnWith("failed to find cluster data") /\ UNCHANGED clusterResourcesDir
       \/ /\ clusterResourcesDir' \in {"", bundleDir \o "/cluster-resources"}
          /\ pc' = "l125"
          /\ UNCHANGED result
    /\ UNCHANGED <<sigpc, args, flags, bundleLocation, kubeConfig, bundleDir,
                   deleteBundleDir, fs, defers, apiServer, shell>>
    /\ UNCHANGED <<decodeVars, sortVars>>

\* A plausible slip: the check of line 125 is missing and the API server
\* is started whatever FindClusterData found.
CheckClusterResources_noCheck ==
    /\ pc = "l125"
    /\ pc' = "l131"
    /\ UNCHANGED <<sigpc, args, flags, bundleLocation, kubeConfig, bundleDir,
                   deleteBundleDir, clusterResourcesDir, fs, defers, apiServer,
                   shell, result>>
    /\ UNCHANGED <<decodeVars, sortVars>>

\* Lines 125-129: without cluster resources, startShellAndWait("cd <bundleDir>")
CheckClusterResources ==
    /\ pc = "l125"
    /\ IF clusterResourcesDir = ""
       THEN /\ shell' = [shell EXCEPT !.cmds = <<"cd " \o bundleDir>>]
            /\ pc' = "startShell"
       ELSE /\ pc' = "l131"
            /\ UNCHANGED shell
    /\ UNCHANGED <<sigpc, args, flags, bundleLocation, kubeConfig, bundleDir,
                   deleteBundleDir, clusterResourcesDir, fs, defers, apiServer, result>>
    /\ UNCHANGED <<decodeVars, sortVars>>

\* api.StartAPIServer(clusterData, logOutput): on success the kubeconfig file
\* has been written and its path is returned.
StartAPIServerCall(files) ==
    {[kubeConfig |-> KubeConfigPath, err |-> "", fs |-> files \cup {KubeConfigPath}],
     [kubeConfig |-> "", err |-> "failed to start server", fs |-> files]}

\* Line 131, the call: the server is started and the kubeconfig file written.
StartAPIServer ==
    /\ pc = "l131"
    /\ apiServer' = TRUE
    /\ \E r \in StartAPIServerCall(fs) :
          /\ fs' = r.fs
          /\ pc' = IF r.err = "" THEN "l131ok" ELSE "l131err"
    /\ UNCHANGED <<sigpc, args, flags, bundleLocation, kubeConfig, bundleDir,
                   deleteBundleDir, clusterResourcesDir, defers, shell, result>>
    /\ UNCHANGED <<decodeVars, sortVars>>

\* Lines 131-135, the assignment of the results: kubeConfig, err = ...;
\* on success os.RemoveAll(kubeConfig) is deferred.
AssignKubeConfig ==
    /\ pc \in {"l131ok", "l131err"}
    /\ IF pc = "l131ok"
       THEN /\ kubeConfig' = KubeConfigPath
            /\ defers' = <<"removeKubeConfig">> \o defers
            /\ pc' = "l137"
            /\ UNCHANGED result
       ELSE /\ kubeConfig' = ""
            /\ ReturnWith("failed to create api server")
            /\ UNCHANGED defers
    /\ UNCHANGED <<sigpc, args, flags, bundleLocation, bundleDir, deleteBundleDir,
                   clusterResourcesDir, fs, apiServer, shell>>
    /\ UNCHANGED <<decodeVars, sortVars>>

\* Lines 137-144: startShellAndWait("export KUBECONFIG=...", ["cd <bundleDir>"])
StartKubeShell ==
    /\ pc = "l137"
    /\ shell' = [shell EXCEPT !.cmds =
                    <<"export KUBECONFIG=" \o kubeConfig>>
                    \o (IF flags.cdBundle THEN <<"cd " \o bundleDir>> ELSE <<>>)]
    /\ pc' = "startShell"
    /\ UNCHANGED <<sigpc, args, flags, bundleLocation, kubeConfig, bundleDir,
                   deleteBundleDir, clusterResourcesDir, fs, defers, apiServer, result>>
    /\ UNCHANGED <<decodeVars, sortVars>>

\* startShellAndWait, lines 156-198: SHELL may be unset, pty.Start may fail,
\* term.MakeRaw may fail (panic); otherwise the shell runs the setup commands.
StartShell ==
    /\ pc = "startShell"
    /\ \/ /\ shell' = [shell EXCEPT !.err = "SHELL environment is required for shell command"]
          /\ ReturnWith(shell'.err)
       \/ /\ shell' = [shell EXCEPT !.err = "failed to start shell"]
          /\ ReturnWith(shell'.err)
       \/ /\ shell' = [shell EXCEPT !.started = TRUE, !.state = "running", !.err = "panic"]
          /\ pc' = "panicking"
          /\ result' = "panic"
       \/ /\ shell' = [shell EXCEPT !.started = TRUE, !.state = "running"]
          /\ pc' = "l200"
          /\ UNCHANGED result
    /\ UNCHANGED <<sigpc, args, flags, bundleLocation, kubeConfig, bundleDir,
                   deleteBundleDir, clusterResourcesDir, fs, defers, apiServer>>
    /\ UNCHANGED <<decodeVars, sortVars>>

\* startShellAndWait, line 200: return shellExec.Wait()
ShellWait ==
    /\ pc = "l200"
    /\ \E e \in {"nil", "exit status 1"} :
          /\ shell' = [shell EXCEPT !.state = "exited", !.err = e]
          /\ ReturnWith(e)
    /\ UNCHANGED <<sigpc, args, flags, bundleLocation, kubeConfig, bundleDir,
                   deleteBundleDir, clusterResourcesDir, fs, defers, apiServer>>
    /\ UNCHANGED <<decodeVars, sortVars>>

\* The cleanup closure, lines 49-56, on the current values of the variables.
cleanup(files) ==
    LET f1 == IF kubeConfig # "" THEN RemoveAll(files, kubeConfig) ELSE files
    IN IF deleteBundleDir /\ bundleDir # "" THEN RemoveAll(f1, bundleDir) ELSE f1

\* The deferred calls run when RunE returns or panics, last registered
\* first: os.RemoveAll(kubeConfig) of line 135 and cleanup() of lines 67-70.
RunDeferred ==
    /\ pc \in {"returning", "panicking"}
    /\ IF defers = <<>>
       THEN /\ pc' = IF pc = "returning" THEN "returned" ELSE "crashed"
            /\ UNCHANGED <<fs, defers>>
       ELSE /\ fs' = IF Head(defers) = "removeKubeConfig"
                     THEN RemoveAll(fs, KubeConfigPath)
                     ELSE cleanup(fs)
            /\ defers' = Tail(defers)
            /\ UNCHANGED pc
    /\ UNCHANGED <<sigpc, args, flags, bundleLocation, kubeConfig, bundleDir,
                   deleteBundleDir, clusterResourcesDir, apiServer, shell, result>>
    /\ UNCHANGED <<decodeVars, sortVars>>

\* The goroutine of lines 58-65: signal.Notify(signalChan, os.Interrupt)
SigNotify ==
    /\ Running
    /\ sigpc = "spawned"
    /\ sigpc' = "waiting"
    /\ UNCHANGED <<pc, args, flags, bundleLocation, kubeConfig, bundleDir,
                   deleteBundleDir, clusterResourcesDir, fs, defers, apiServer,
                   shell, result>>
    /\ UNCHANGED <<decodeVars, sortVars>>

\* An interrupt arrives.  Before signal.Notify it ends the process at once
\* (Go's default for SIGINT); after it, <-signalChan returns.
Interrupt ==
    /\ Running
    /\ pc # "start"
    /\ sigpc \in {"spawned", "waiting"}
    /\ IF sigpc = "waiting"
       THEN sigpc' = "l63" /\ UNCHANGED pc
       ELSE pc' = "killed" /\ UNCHANGED sigpc
    /\ UNCHANGED <<args, flags, bundleLocation, kubeConfig, bundleDir,
                   deleteBundleDir, clusterResourcesDir, fs, defers, apiServer,
                   shell, result>>
    /\ UNCHANGED <<decodeVars, sortVars>>

\* Line 63, cleanup(): lines 50-52
SigCleanupKubeConfig ==
    /\ Running
    /\ sigpc = "l63"
    /\ fs' = IF kubeConfig # "" THEN RemoveAll(fs, kubeConfig) ELSE fs
    /\ sigpc' = "l53"
    /\ UNCHANGED <<pc, args, flags, bundleLocation, kubeConfig, bundleDir,
                   deleteBundleDir, clusterResourcesDir, defers, apiServer,
                   shell, result>>
    /\ UNCHANGED <<decodeVars, sortVars>>

\* Line 63, cleanup(): lines 53-55
SigCleanupBundleDir ==
    /\ Running
    /\ sigpc = "l53"
    /\ fs' = IF deleteBundleDir /\ bundleDir # "" THEN RemoveAll(fs, bundleDir) ELSE fs
    /\ sigpc' = "l64"
    /\ UNCHANGED <<pc, args, flags, bundleLocation, kubeConfig, bundleDir,
                   deleteBundleDir, clusterResourcesDir, defers, apiServer,
                   shell, result>>
    /\ UNCHANGED <<decodeVars, sortVars>>

\* Line 64: os.Exit(0); the deferred calls of RunE do not run.
SigExit ==
    /\ Running
    /\ sigpc = "l64"
    /\ pc' = "exited"
    /\ sigpc' = "done"
    /\ UNCHANGED <<args, flags, bundleLocation, kubeConfig, bundleDir,
                   deleteBundleDir, clusterResourcesDir, fs, defers, apiServer,
                   shell, result>>
    /\ UNCHANGED <<decodeVars, sortVars>>

----------------------------------------------------------------------------
(* Specifications *)

DecodeNext == DecodeCall

SpecDecode == DecodeInit /\ [][DecodeNext]_vars

SortNext == SortCall

SpecSort == SortInit /\ [][SortNext]_vars

ShellNext ==
    \/ Start
    \/ Download
    \/ SetBundleDirDownloaded
    \/ SetDeleteDownloaded
    \/ Stat
    \/ SetDeleteArchive
    \/ MkdirTemp
    \/ ExtractBundle
    \/ FindClusterData
    \/ CheckClusterResources
    \/ StartAPIServer
    \/ AssignKubeConfig
    \/ StartKubeShell
    \/ StartShell
    \/ ShellWait
    \/ RunDeferred
    \/ SigNotify
    \/ Interrupt
    \/ SigCleanupKubeConfig
    \/ SigCleanupBundleDir
    \/ SigExit

SpecShell == ShellInit /\ [][ShellNext]_vars

Init == DecodeInit \/ SortInit \/ ShellInit

Next == DecodeNext \/ SortNext \/ ShellNext

Spec == Init /\ [][Next]_vars

----------------------------------------------------------------------------
(* Properties of Decode *)

StrictFailed == decode(data).err # ""

WrappedFailed ==
    LET w == wrapListData(resource, data) IN w.err # "" \/ decode(w.data).err # ""

IsBareArray == data.shape = "array"

AllWellTyped == \A i \in 1..Len(data.items) : data.items[i].wellTyped

AllHaveKind == \A i \in 1..Len(data.items) : data.items[i].kind # ""

SameElements(items, elems) ==
    /\ Len(items) = Len(elems)
    /\ \A i \in 1..Len(elems) :
          items[i].name = elems[i].name /\ items[i].wellTyped = elems[i].wellTyped

\* C1: Decode never returns a nil payload together with a nil error; when
\* every decoding attempt fails the error is not nil.
C1_NeverNilPayloadNilError ==
    ret.called => ~(ret.obj.nil /\ ret.err = "")

\* C2: every item of a list that Decode returns carries a non-empty kind and
\* a non-empty apiVersion.
C2_ListItemsCarryKindAndAPIVersion ==
    (ret.called /\ ret.err = "" /\ ret.obj.isList) =>
        \A i \in 1..Len(ret.obj.items) :
            ret.obj.items[i].kind # "" /\ ret.obj.items[i].apiVersion # ""

\* C3: on a typed list of the stamping table that Decode has stamped, the
\* kind of every item is the list's kind without "List" and the apiVersion
\* of every item is the list's apiVersion.
C3_StampedKindIsSingular ==
    (ret.called /\ ret.err = "" /\ StrictFailed /\ ret.obj.typed /\ ret.obj.isList
        /\ <<ret.obj.kind, ret.obj.apiVersion>> \in StampedLists) =>
        \A i \in 1..Len(ret.obj.items) :
            /\ ret.obj.items[i].kind \o "List" = ret.obj.kind
            /\ ret.obj.items[i].apiVersion = ret.obj.apiVersion

\* C4: a bare array of objects of a recognized resource decodes through
\* list-wrapping into the typed list of the hint's kind and apiVersion,
\* holding the elements of the array in order; under an unrecognized hint
\* nothing is wrapped and the result is that of the untyped fallbacks on
\* the original payload.
C4_BareArrayDecodesViaWrapping ==
    ret.called =>
      /\ (resource \in RecognizedHints /\ IsBareArray /\ AllWellTyped) =>
            /\ ret.err = ""
            /\ ~ret.obj.nil /\ ret.obj.typed /\ ret.obj.isList
            /\ <<ret.obj.kind, ret.obj.apiVersion>> = WrapTable(resource)
            /\ ~ret.gvk.nil /\ ret.gvk.kind = ret.obj.kind
            /\ APIVersion(ret.gvk) = ret.obj.apiVersion
            /\ SameElements(ret.obj.items, data.items)
      /\ (resource \notin RecognizedHints /\ StrictFailed) =>
            /\ ~ret.obj.typed
            /\ \/ ret.obj.nil
               \/ /\ ~ret.obj.isList /\ data.shape = "object"
                  /\ ret.obj.kind = data.kind /\ ret.obj.apiVersion = data.apiVersion
               \/ /\ ret.obj.isList /\ IsBareArray /\ ret.obj.items = data.items

C4_Witness ==
    /\ ret.called /\ resource = "pvcs" /\ IsBareArray /\ AllWellTyped
    /\ Len(data.items) = 2 /\ data.items[1] # data.items[2]
    /\ ret.obj.isList /\ Len(ret.obj.items) = 2

UntypedListOfElements ==
    /\ ret.err = ""
    /\ ~ret.obj.nil /\ ~ret.obj.typed /\ ret.obj.isList
    /\ ret.obj.items = data.items
    /\ ~ret.gvk.nil
    /\ GVK(ret.gvk.group, ret.gvk.version, ret.gvk.kind)
          = FromAPIVersionAndKind(data.items[1].apiVersion, data.items[1].kind)
    /\ ret.obj.kind = ret.gvk.kind
    /\ ret.obj.apiVersion = APIVersion(ret.gvk)

\* C10 as stated: when both typed decodes and the untyped-object decode have
\* failed and the payload is a non-empty array of objects, Decode returns
\* the untyped list of the array's elements with the first element's GVK.
C10_Original ==
    (ret.called /\ StrictFailed /\ WrappedFailed /\ UnmarshalUnstructured(data).err # ""
        /\ IsBareArray /\ Len(data.items) > 0) => UntypedListOfElements

\* C10, amended: the same, for a non-empty array of objects that all carry
\* a non-empty kind.
C10_UntypedListFromArray ==
    (ret.called /\ StrictFailed /\ WrappedFailed /\ UnmarshalUnstructured(data).err # ""
        /\ IsBareArray /\ Len(data.items) > 0 /\ AllHaveKind) => UntypedListOfElements

C10_Witness ==
    /\ ret.called /\ resource = "pods" /\ IsBareArray /\ Len(data.items) = 2
    /\ AllHaveKind /\ ~AllWellTyped /\ data.items[1] # data.items[2]
    /\ ret.obj.isList /\ ~ret.obj.typed

----------------------------------------------------------------------------
(* Properties of SortUnstructuredList *)

Pos(l, x) == CHOOSE i \in 1..Len(l) : l[i] = x

SortedNames ==
    <<"a", "b", "p01", "p02", "p03", "p04", "p05", "p06", "p07", "p08", "p09", "p10",
      "p11", "p12", "p13", "ns1", "ns2">>

Rank(str) == CHOOSE i \in 1..Len(SortedNames) : SortedNames[i] = str

KeyBefore(x, y) ==
    \/ Rank(x.namespace) < Rank(y.namespace)
    \/ x.namespace = y.namespace /\ Rank(x.name) < Rank(y.name)

\* C5: the sort is stable: the output holds the items of the input, and two
\* items with equal creation timestamps keep their relative order.
C5_SortIsStable ==
    sorted =>
      /\ IsPermutation(input, list)
      /\ \A i, j \in 1..Len(input) :
            (i < j /\ input[i].ts = input[j].ts) =>
                Pos(list, input[i]) < Pos(list, input[j])

\* C6: the output is in ascending order of creation timestamp, ties in
\* order of (namespace, name), so two lists of the same items in different
\* orders sort to the same sequence.
C6_SortIsDeterministic ==
    sorted =>
      /\ \A i, j \in 1..Len(list) :
            i < j => \/ list[i].ts < list[j].ts
                     \/ list[i].ts = list[j].ts /\ KeyBefore(list[i], list[j])
      /\ list = list2

----------------------------------------------------------------------------
(* Properties of the shell command *)

\* C7: when FindClusterData finds no cluster-resources directory, the API
\* server is never started and no kubeconfig exists; the only shell started
\* is the one set up with "cd <bundleDir>", and RunE returns what that shell
\* returned.
C7_NoClusterResourcesPlainShell ==
    clusterResourcesDir = "" =>
      /\ ~apiServer
      /\ kubeConfig = ""
      /\ KubeConfigPath \notin fs
      /\ shell.cmds \in {<<>>, <<"cd " \o bundleDir>>}
      /\ shell.started => shell.cmds = <<"cd " \o bundleDir>>
      /\ pc \in {"returning", "returned"} =>
            shell.cmds = <<"cd " \o bundleDir>> /\ result = shell.err

C7_Witness ==
    /\ clusterResourcesDir = ""
    /\ pc = "returned"
    /\ shell.state = "exited"
    /\ result = "nil"

\* C8: however the command ends (RunE returns or panics, or the signal
\* goroutine calls os.Exit), no kubeconfig file is left behind.
C8_KubeConfigRemovedAtEnd ==
    pc \in {"returned", "crashed", "exited"} => KubeConfigPath \notin fs

\* C9: no path supplied by the user is ever removed.
C9_UserPathsNeverRemoved ==
    UserPaths \subseteq fs

====
